---------------------------- MODULE Spec2Model ----------------------------
(***************************************************************************)
(* Undo/redo history of a text editor (Memento pattern).                   *)
(*   TextEditor     (originator)  src/HistoryManager.ts:155-271            *)
(*   EditorSnapshot (memento)     src/HistoryManager.ts:88-142             *)
(*   HistoryManager (caretaker)   src/unnamed/part_000:13-145              *)
(*   Write/Delete/Format commands src/src/demo.ts:342-433                  *)
(* Strings are sequences of characters.  Every method is a pure operator   *)
(* on records of the objects' fields; every action applies one method (or  *)
(* one command's execute()) to the program state.                          *)
(*   Spec      any sequence of calls on a new editor and history           *)
(*   SpecCalls a session of commands, undo, redo and queries, with the     *)
(*             last call and its result on record                          *)
(*   SpecDirect the methods of the editor and the history called directly, *)
(*             with the last call and its result on record                 *)
(*   SpecDemo  the calls of runDemo, with the whole sequence on record     *)
(*   SpecInvoker commands run through an EditorInvoker, with undo, redo,   *)
(*             clearHistory and setMaxHistorySize                          *)
(*   SpecMethods every method of the editor and of the history called     *)
(*             directly, with the last call and its result on record       *)
(*   SpecEditor the calls of a TextEditor alone, with the last call, its   *)
(*             argument, its result and the editor before it on record     *)
(*   SpecVariants the same calls made on these classes and on the classes  *)
(*             without validation (src/TextEditor.ts and                   *)
(*             src/HistoryManager.ts:4-76), side by side                   *)
(***************************************************************************)
EXTENDS Integers, Sequences, FiniteSets, TLC

\* ------------------------------------------------------------------ bounds
MaxLen == 1          \* longest content written under Spec and SpecCalls
MaxSaves == 3        \* snapshots constructed in one behaviour of these two
MaxTrail == 8        \* calls in one behaviour of SpecDemo
MaxText == 3         \* longest content written under SpecEditor
MaxMethodSaves == 2  \* snapshots constructed in one behaviour of SpecMethods
MaxVariantSaves == 1 \* snapshots constructed by each variant in one behaviour
                     \* of SpecVariants

\* ------------------------------------------------------ program constants
DefaultFontSize == 12
DefaultMaxHistorySize == 50

\* ------------------------------------------------------------------ inputs
Texts == {<<>>, <<"a">>}
\* Arguments of the calls: each set holds the rejected values (the empty
\* text, a negative or zero number) next to accepted ones.  setCursor is
\* called with a negative position and with one beyond the end of the text.
Counts == -1 .. (MaxLen + 1)
Positions == {-1, MaxLen + 1}
FontSizes == {0, DefaultFontSize, 16}
Sizes == {0, 1, 2}
\* Arguments of the calls of SpecEditor: texts of two letters, every count
\* and position from -1 to beyond the longest text, and a position far
\* beyond it.
EditorTexts == {<<>>, <<"a">>, <<"b">>, <<"a", "b">>}
EditorCounts == -1 .. (MaxText + 1)
EditorPositions == (-1 .. (MaxText + 1)) \cup {1000}

VARIABLES
    content,          \* TextEditor.content
    cursorPosition,   \* TextEditor.cursorPosition
    fontSize,         \* TextEditor.fontSize
    snapshots,        \* HistoryManager.snapshots
    currentIndex,     \* HistoryManager.currentIndex (0-based, -1 when empty)
    maxHistorySize,   \* HistoryManager.maxHistorySize
    clock,            \* number of EditorSnapshot objects constructed so far
    lastOp,           \* the method called by the last step, when calls
                      \* are on record
    lastArg,          \* its argument; "editor" or "null" where the
                      \* argument is the editor
    lastResult,       \* what it returned ("true", "false", "void") or
                      \* "throw"
    lastEditor,       \* SpecEditor: the editor before the last call
    savesFromEmpty,   \* successive saveState calls made since the history
                      \* was empty, at one maxHistorySize; -1 when the
                      \* calls since then were not only saves and edits
    sinceClear,       \* saveState calls that stored a snapshot since the
                      \* last clearHistory, 2 standing for two or more;
                      \* -1 before the first clearHistory
    trail,            \* SpecDemo: the calls made so far, in order
    commands,         \* length of EditorInvoker.commands
    executed,         \* SpecInvoker: executeCommand calls that returned
    cleared,          \* SpecInvoker: the value of executed at the last
                      \* clearCommandHistory
    basic             \* SpecVariants: the editor and the history of the
                      \* unvalidated variant, and what its last call
                      \* returned

vars == <<content, cursorPosition, fontSize, snapshots, currentIndex,
          maxHistorySize, clock, lastOp, lastArg, lastResult, lastEditor,
          savesFromEmpty, sinceClear, trail, commands, executed, cleared,
          basic>>

Min(a, b) == IF a < b THEN a ELSE b
Max(a, b) == IF a > b THEN a ELSE b

\* --------------------------------------------------------- JavaScript helpers
\* String.prototype.substring(start, end): both clamped to [0, length] and
\* swapped when start > end.
substring(s, start, end) ==
    LET a == Max(0, Min(start, Len(s)))
        b == Max(0, Min(end, Len(s)))
    IN SubSeq(s, Min(a, b) + 1, Max(a, b))

\* Array.prototype.slice(0, end) for end >= 0.
slice(arr, end) == SubSeq(arr, 1, Min(Max(end, 0), Len(arr)))

\* Array.prototype.splice(0, n) / shift(): what is left of the array.
splice(arr, n) == SubSeq(arr, Min(Max(n, 0), Len(arr)) + 1, Len(arr))

\* ------------------------------------------------------------ EditorSnapshot
\* The constructor: throws on a negative cursor or a non-positive font size.
\* The timestamp is the instant of construction; the program is single
\* threaded, so the instants are totally ordered and tell the objects apart.
EditorSnapshot(c, pos, size, now) ==
    IF pos < 0 \/ size <= 0
    THEN [thrown |-> TRUE, snapshot |-> <<>>]
    ELSE [thrown |-> FALSE,
          snapshot |-> [content |-> c, cursorPosition |-> pos,
                        fontSize |-> size, timestamp |-> now]]

isValid(snapshot) == snapshot.cursorPosition >= 0 /\ snapshot.fontSize > 0

\* ---------------------------------------------------------------- TextEditor
NewTextEditor ==
    [content |-> <<>>, cursorPosition |-> 0, fontSize |-> DefaultFontSize]

\* write as it would be if it appended the text instead of inserting it at
\* the cursor.
write_AppendsAtEnd(e, text) ==
    IF text = <<>>
    THEN [thrown |-> TRUE, editor |-> e]
    ELSE [thrown |-> FALSE,
          editor |-> [e EXCEPT !.content = @ \o text,
                               !.cursorPosition = @ + Len(text)]]

write(e, text) ==
    IF text = <<>>
    THEN [thrown |-> TRUE, editor |-> e]
    ELSE LET before == substring(e.content, 0, e.cursorPosition)
             after == substring(e.content, e.cursorPosition, Len(e.content))
         IN [thrown |-> FALSE,
             editor |-> [e EXCEPT !.content = before \o text \o after,
                                  !.cursorPosition = @ + Len(text)]]

\* delete as it would be without this.cursorPosition -= count.
delete_KeepsCursor(e, count) ==
    IF count < 0
    THEN [thrown |-> TRUE, editor |-> e]
    ELSE IF e.cursorPosition >= count
         THEN LET before == substring(e.content, 0, e.cursorPosition - count)
                  after == substring(e.content, e.cursorPosition,
                                     Len(e.content))
              IN [thrown |-> FALSE,
                  editor |-> [e EXCEPT !.content = before \o after]]
         ELSE [thrown |-> FALSE, editor |-> e]

\* delete as it would be if a count beyond the cursor deleted the characters
\* there are (clamped) instead of none (gated).
delete_Clamped(e, count) ==
    IF count < 0
    THEN [thrown |-> TRUE, editor |-> e]
    ELSE LET n == Min(count, e.cursorPosition)
             before == substring(e.content, 0, e.cursorPosition - n)
             after == substring(e.content, e.cursorPosition, Len(e.content))
         IN [thrown |-> FALSE,
             editor |-> [e EXCEPT !.content = before \o after,
                                  !.cursorPosition = @ - n]]

delete(e, count) ==
    IF count < 0
    THEN [thrown |-> TRUE, editor |-> e]
    ELSE IF e.cursorPosition >= count
         THEN LET before == substring(e.content, 0, e.cursorPosition - count)
                  after == substring(e.content, e.cursorPosition,
                                     Len(e.content))
              IN [thrown |-> FALSE,
                  editor |-> [e EXCEPT !.content = before \o after,
                                       !.cursorPosition = @ - count]]
         ELSE [thrown |-> FALSE, editor |-> e]

\* setCursor as it would be without Math.min(position, content.length).
setCursor_NoClamp(e, position) ==
    IF position < 0
    THEN [thrown |-> TRUE, editor |-> e]
    ELSE [thrown |-> FALSE,
          editor |-> [e EXCEPT !.cursorPosition = Max(0, position)]]

setCursor(e, position) ==
    IF position < 0
    THEN [thrown |-> TRUE, editor |-> e]
    ELSE [thrown |-> FALSE,
          editor |-> [e EXCEPT !.cursorPosition =
                          Max(0, Min(position, Len(e.content)))]]

\* setFontSize as it would be if it put the cursor back to the start.
setFontSize_ResetsCursor(e, size) ==
    IF size <= 0
    THEN [thrown |-> TRUE, editor |-> e]
    ELSE [thrown |-> FALSE,
          editor |-> [e EXCEPT !.fontSize = size, !.cursorPosition = 0]]

\* setFontSize as it would be without its validation.
setFontSize_NoValidation(e, size) ==
    [thrown |-> FALSE, editor |-> [e EXCEPT !.fontSize = size]]

setFontSize(e, size) ==
    IF size <= 0
    THEN [thrown |-> TRUE, editor |-> e]
    ELSE [thrown |-> FALSE, editor |-> [e EXCEPT !.fontSize = size]]

createSnapshot(e, now) ==
    EditorSnapshot(e.content, e.cursorPosition, e.fontSize, now)

\* restore as it would be if it left the cursor alone.
restore_KeepsCursor(e, snapshot) ==
    [content |-> snapshot.content,
     cursorPosition |-> e.cursorPosition,
     fontSize |-> snapshot.fontSize]

\* restore as it would be if it left the font size alone.
restore_KeepsFontSize(e, snapshot) ==
    [content |-> snapshot.content,
     cursorPosition |-> snapshot.cursorPosition,
     fontSize |-> e.fontSize]

restore(e, snapshot) ==
    [content |-> snapshot.content,
     cursorPosition |-> snapshot.cursorPosition,
     fontSize |-> snapshot.fontSize]

\* ------------------------------------------------------------ HistoryManager
\* h = [snapshots, currentIndex, maxHistorySize]; present = the editor
\* argument is not null.  Sequences are 1-based: snapshots[currentIndex + 1]
\* is the code's this.snapshots[this.currentIndex].  Reading an element
\* outside the array gives undefined, on which isValid() raises a TypeError:
\* undo and redo catch it and return false, after currentIndex has moved.
\* saveState as it would be without the slice that drops the redo branch.
saveState_KeepsRedoBranch(h, e, present, now) ==
    IF ~present
    THEN [thrown |-> TRUE, history |-> h]
    ELSE LET made == createSnapshot(e, now)
         IN IF made.thrown \/ ~isValid(made.snapshot)
            THEN [thrown |-> TRUE, history |-> h]
            ELSE LET pushed == Append(h.snapshots, made.snapshot)
                 IN IF Len(pushed) > h.maxHistorySize
                    THEN [thrown |-> FALSE,
                          history |-> [h EXCEPT !.snapshots =
                                                    splice(pushed, 1)]]
                    ELSE [thrown |-> FALSE,
                          history |-> [h EXCEPT !.snapshots = pushed,
                                                !.currentIndex = @ + 1]]

\* saveState as it would be if it advanced currentIndex on eviction too.
saveState_AlwaysAdvances(h, e, present, now) ==
    IF ~present
    THEN [thrown |-> TRUE, history |-> h]
    ELSE LET kept == slice(h.snapshots, h.currentIndex + 1)
             made == createSnapshot(e, now)
         IN IF made.thrown \/ ~isValid(made.snapshot)
            THEN [thrown |-> TRUE,
                  history |-> [h EXCEPT !.snapshots = kept]]
            ELSE LET pushed == Append(kept, made.snapshot)
                 IN [thrown |-> FALSE,
                     history |-> [h EXCEPT
                         !.snapshots = IF Len(pushed) > h.maxHistorySize
                                       THEN splice(pushed, 1) ELSE pushed,
                         !.currentIndex = @ + 1]]

\* saveState as it would be if a full history dropped its newest snapshot
\* (pop) instead of its oldest (shift).
saveState_EvictsNewest(h, e, present, now) ==
    IF ~present
    THEN [thrown |-> TRUE, history |-> h]
    ELSE LET kept == slice(h.snapshots, h.currentIndex + 1)
             made == createSnapshot(e, now)
         IN IF made.thrown \/ ~isValid(made.snapshot)
            THEN [thrown |-> TRUE,
                  history |-> [h EXCEPT !.snapshots = kept]]
            ELSE LET pushed == Append(kept, made.snapshot)
                 IN IF Len(pushed) > h.maxHistorySize
                    THEN [thrown |-> FALSE,
                          history |-> [h EXCEPT !.snapshots = kept]]
                    ELSE [thrown |-> FALSE,
                          history |-> [h EXCEPT !.snapshots = pushed,
                                                !.currentIndex = @ + 1]]

\* saveState as it would be if it dropped the redo branch before it looked
\* at its argument.
saveState_TruncatesFirst(h, e, present, now) ==
    LET kept == slice(h.snapshots, h.currentIndex + 1)
        made == createSnapshot(e, now)
    IN IF ~present \/ made.thrown \/ ~isValid(made.snapshot)
       THEN [thrown |-> TRUE, history |-> [h EXCEPT !.snapshots = kept]]
       ELSE LET pushed == Append(kept, made.snapshot)
            IN IF Len(pushed) > h.maxHistorySize
               THEN [thrown |-> FALSE,
                     history |-> [h EXCEPT !.snapshots = splice(pushed, 1)]]
               ELSE [thrown |-> FALSE,
                     history |-> [h EXCEPT !.snapshots = pushed,
                                           !.currentIndex = @ + 1]]

\* saveState as it would be if it moved currentIndex down with the shift of
\* an eviction.
saveState_ShiftsIndex(h, e, present, now) ==
    IF ~present
    THEN [thrown |-> TRUE, history |-> h]
    ELSE LET kept == slice(h.snapshots, h.currentIndex + 1)
             made == createSnapshot(e, now)
         IN IF made.thrown \/ ~isValid(made.snapshot)
            THEN [thrown |-> TRUE,
                  history |-> [h EXCEPT !.snapshots = kept]]
            ELSE LET pushed == Append(kept, made.snapshot)
                 IN IF Len(pushed) > h.maxHistorySize
                    THEN [thrown |-> FALSE,
                          history |-> [h EXCEPT
                              !.snapshots = splice(pushed, 1),
                              !.currentIndex = @ - 1]]
                    ELSE [thrown |-> FALSE,
                          history |-> [h EXCEPT !.snapshots = pushed,
                                                !.currentIndex = @ + 1]]

saveState(h, e, present, now) ==
    IF ~present
    THEN [thrown |-> TRUE, history |-> h]
    ELSE LET kept == slice(h.snapshots, h.currentIndex + 1)
             made == createSnapshot(e, now)
         IN IF made.thrown \/ ~isValid(made.snapshot)
            THEN [thrown |-> TRUE,
                  history |-> [h EXCEPT !.snapshots = kept]]
            ELSE LET pushed == Append(kept, made.snapshot)
                 IN IF Len(pushed) > h.maxHistorySize
                    THEN [thrown |-> FALSE,
                          history |-> [h EXCEPT !.snapshots =
                                                    splice(pushed, 1)]]
                    ELSE [thrown |-> FALSE,
                          history |-> [h EXCEPT !.snapshots = pushed,
                                                !.currentIndex = @ + 1]]

\* undo as it would be if it stored the document it leaves, for a later
\* redo, as one more snapshot.
undo_StoresCurrent(h, e, present) ==
    IF ~present
    THEN [result |-> FALSE, history |-> h, editor |-> e]
    ELSE IF h.currentIndex > 0
         THEN LET i == h.currentIndex - 1
                  last == h.snapshots[Len(h.snapshots)]
                  made == createSnapshot(e, last.timestamp + 1)
              IN [result |-> TRUE,
                  history |-> [h EXCEPT
                      !.snapshots = Append(@, made.snapshot),
                      !.currentIndex = i],
                  editor |-> restore(e, h.snapshots[i + 1])]
         ELSE [result |-> FALSE, history |-> h, editor |-> e]

\* undo as it would be if it dropped the snapshots it steps back from (an
\* undo stack without redo).
undo_DropsUndone(h, e, present) ==
    IF ~present
    THEN [result |-> FALSE, history |-> h, editor |-> e]
    ELSE IF h.currentIndex > 0
         THEN LET i == h.currentIndex - 1
              IN [result |-> TRUE,
                  history |-> [h EXCEPT !.snapshots = slice(@, i + 1),
                                        !.currentIndex = i],
                  editor |-> restore(e, h.snapshots[i + 1])]
         ELSE [result |-> FALSE, history |-> h, editor |-> e]

\* undo as it would be with the guard currentIndex >= 0.
undo_FromIndexZero(h, e, present) ==
    IF ~present
    THEN [result |-> FALSE, history |-> h, editor |-> e]
    ELSE IF h.currentIndex >= 0
         THEN LET i == h.currentIndex - 1
                  moved == [h EXCEPT !.currentIndex = i]
              IN IF i < 0 \/ i >= Len(h.snapshots)
                    \/ ~isValid(h.snapshots[i + 1])
                 THEN [result |-> FALSE, history |-> moved, editor |-> e]
                 ELSE [result |-> TRUE, history |-> moved,
                       editor |-> restore(e, h.snapshots[i + 1])]
         ELSE [result |-> FALSE, history |-> h, editor |-> e]

\* undo as it would be if, with nothing to undo, it put the editor back to
\* the current snapshot before returning false.
undo_RestoresAtBoundary(h, e, present) ==
    IF ~present
    THEN [result |-> FALSE, history |-> h, editor |-> e]
    ELSE IF h.currentIndex > 0
         THEN LET i == h.currentIndex - 1
                  moved == [h EXCEPT !.currentIndex = i]
              IN IF i < 0 \/ i >= Len(h.snapshots)
                    \/ ~isValid(h.snapshots[i + 1])
                 THEN [result |-> FALSE, history |-> moved, editor |-> e]
                 ELSE [result |-> TRUE, history |-> moved,
                       editor |-> restore(e, h.snapshots[i + 1])]
         ELSE IF h.currentIndex = 0
              THEN [result |-> FALSE, history |-> h,
                    editor |-> restore(e, h.snapshots[1])]
              ELSE [result |-> FALSE, history |-> h, editor |-> e]

\* undo as it would be without this.currentIndex--.
undo_KeepsIndex(h, e, present) ==
    IF ~present
    THEN [result |-> FALSE, history |-> h, editor |-> e]
    ELSE IF h.currentIndex > 0
         THEN [result |-> TRUE, history |-> h,
               editor |-> restore(e, h.snapshots[h.currentIndex])]
         ELSE [result |-> FALSE, history |-> h, editor |-> e]

undo(h, e, present) ==
    IF ~present
    THEN [result |-> FALSE, history |-> h, editor |-> e]
    ELSE IF h.currentIndex > 0
         THEN LET i == h.currentIndex - 1
                  moved == [h EXCEPT !.currentIndex = i]
              IN IF i < 0 \/ i >= Len(h.snapshots)
                    \/ ~isValid(h.snapshots[i + 1])
                 THEN [result |-> FALSE, history |-> moved, editor |-> e]
                 ELSE [result |-> TRUE, history |-> moved,
                       editor |-> restore(e, h.snapshots[i + 1])]
         ELSE [result |-> FALSE, history |-> h, editor |-> e]

\* redo as it would be if it went to the newest snapshot at once.
redo_ToLatest(h, e, present) ==
    IF ~present
    THEN [result |-> FALSE, history |-> h, editor |-> e]
    ELSE IF h.currentIndex < Len(h.snapshots) - 1
         THEN LET i == Len(h.snapshots) - 1
              IN [result |-> TRUE,
                  history |-> [h EXCEPT !.currentIndex = i],
                  editor |-> restore(e, h.snapshots[i + 1])]
         ELSE [result |-> FALSE, history |-> h, editor |-> e]

redo(h, e, present) ==
    IF ~present
    THEN [result |-> FALSE, history |-> h, editor |-> e]
    ELSE IF h.currentIndex < Len(h.snapshots) - 1
         THEN LET i == h.currentIndex + 1
                  moved == [h EXCEPT !.currentIndex = i]
              IN IF i < 0 \/ i >= Len(h.snapshots)
                    \/ ~isValid(h.snapshots[i + 1])
                 THEN [result |-> FALSE, history |-> moved, editor |-> e]
                 ELSE [result |-> TRUE, history |-> moved,
                       editor |-> restore(e, h.snapshots[i + 1])]
         ELSE [result |-> FALSE, history |-> h, editor |-> e]

\* canUndo as it would be with the guard currentIndex >= 0.
canUndo_FromIndexZero(h) == h.currentIndex >= 0

canUndo(h) == h.currentIndex > 0

canRedo(h) == h.currentIndex < Len(h.snapshots) - 1

getHistoryInfo(h) ==
    [snapshots |-> Len(h.snapshots), currentIndex |-> h.currentIndex]

\* clearHistory as it would be if it reset currentIndex to 0.
clearHistory_ResetsToZero(h) ==
    [h EXCEPT !.snapshots = <<>>, !.currentIndex = 0]

clearHistory(h) == [h EXCEPT !.snapshots = <<>>, !.currentIndex = -1]

\* setMaxHistorySize as it would be without Math.max(0, ...).
setMaxHistorySize_NoFloor(h, size) ==
    IF size <= 0
    THEN [thrown |-> TRUE, history |-> h]
    ELSE IF Len(h.snapshots) > size
         THEN LET excess == Len(h.snapshots) - size
              IN [thrown |-> FALSE,
                  history |-> [snapshots |-> splice(h.snapshots, excess),
                               currentIndex |-> h.currentIndex - excess,
                               maxHistorySize |-> size]]
         ELSE [thrown |-> FALSE,
               history |-> [h EXCEPT !.maxHistorySize = size]]

\* setMaxHistorySize as it would be without the trim of the stored history.
setMaxHistorySize_NoTrim(h, size) ==
    IF size <= 0
    THEN [thrown |-> TRUE, history |-> h]
    ELSE [thrown |-> FALSE, history |-> [h EXCEPT !.maxHistorySize = size]]

\* setMaxHistorySize as it would be if the trim kept the oldest snapshots
\* (splice at the end) instead of the newest.
setMaxHistorySize_TrimsNewest(h, size) ==
    IF size <= 0
    THEN [thrown |-> TRUE, history |-> h]
    ELSE IF Len(h.snapshots) > size
         THEN LET excess == Len(h.snapshots) - size
              IN [thrown |-> FALSE,
                  history |-> [snapshots |-> slice(h.snapshots, size),
                               currentIndex |->
                                   Max(0, h.currentIndex - excess),
                               maxHistorySize |-> size]]
         ELSE [thrown |-> FALSE,
               history |-> [h EXCEPT !.maxHistorySize = size]]

\* setMaxHistorySize as it would be if it kept currentIndex, only brought
\* into the range of the trimmed array.
setMaxHistorySize_KeepsIndex(h, size) ==
    IF size <= 0
    THEN [thrown |-> TRUE, history |-> h]
    ELSE IF Len(h.snapshots) > size
         THEN LET excess == Len(h.snapshots) - size
              IN [thrown |-> FALSE,
                  history |-> [snapshots |-> splice(h.snapshots, excess),
                               currentIndex |-> Min(h.currentIndex, size - 1),
                               maxHistorySize |-> size]]
         ELSE [thrown |-> FALSE,
               history |-> [h EXCEPT !.maxHistorySize = size]]

setMaxHistorySize(h, size) ==
    IF size <= 0
    THEN [thrown |-> TRUE, history |-> h]
    ELSE IF Len(h.snapshots) > size
         THEN LET excess == Len(h.snapshots) - size
              IN [thrown |-> FALSE,
                  history |-> [snapshots |-> splice(h.snapshots, excess),
                               currentIndex |->
                                   Max(0, h.currentIndex - excess),
                               maxHistorySize |-> size]]
         ELSE [thrown |-> FALSE,
               history |-> [h EXCEPT !.maxHistorySize = size]]

\* ------------------------------------------------------------------ commands
\* new XCommand(editor, history, arg).execute(): the constructor validates
\* the argument, execute() saves the state and then mutates the editor.  An
\* exception of saveState or of the mutation leaves execute() at once.
\* WriteCommand.execute() as it would be if it wrote first and saved after.
WriteCommand_WritesFirst(h, e, text, now) ==
    IF text = <<>>
    THEN [thrown |-> TRUE, history |-> h, editor |-> e, saved |-> FALSE]
    ELSE LET w == write(e, text)
             s == saveState(h, w.editor, TRUE, now)
         IN IF w.thrown
            THEN [thrown |-> TRUE, history |-> h, editor |-> e,
                  saved |-> FALSE]
            ELSE [thrown |-> s.thrown, history |-> s.history,
                  editor |-> w.editor, saved |-> ~s.thrown]

WriteCommand(h, e, text, now) ==
    IF text = <<>>
    THEN [thrown |-> TRUE, history |-> h, editor |-> e, saved |-> FALSE]
    ELSE LET s == saveState(h, e, TRUE, now)
             w == write(e, text)
         IN IF s.thrown
            THEN [thrown |-> TRUE, history |-> s.history, editor |-> e,
                  saved |-> FALSE]
            ELSE [thrown |-> w.thrown, history |-> s.history,
                  editor |-> w.editor, saved |-> TRUE]

DeleteCommand(h, e, count, now) ==
    IF count < 0
    THEN [thrown |-> TRUE, history |-> h, editor |-> e, saved |-> FALSE]
    ELSE LET s == saveState(h, e, TRUE, now)
             d == delete(e, count)
         IN IF s.thrown
            THEN [thrown |-> TRUE, history |-> s.history, editor |-> e,
                  saved |-> FALSE]
            ELSE [thrown |-> d.thrown, history |-> s.history,
                  editor |-> d.editor, saved |-> TRUE]

FormatCommand(h, e, size, now) ==
    IF size <= 0
    THEN [thrown |-> TRUE, history |-> h, editor |-> e, saved |-> FALSE]
    ELSE LET s == saveState(h, e, TRUE, now)
             f == setFontSize(e, size)
         IN IF s.thrown
            THEN [thrown |-> TRUE, history |-> s.history, editor |-> e,
                  saved |-> FALSE]
            ELSE [thrown |-> f.thrown, history |-> s.history,
                  editor |-> f.editor, saved |-> TRUE]

\* ------------------------------------------------------------- EditorInvoker
\* A command that was constructed (its constructor accepted the argument),
\* or no command at all.
NoCommand == [kind |-> "null", arg |-> 0]

Commands ==
    {NoCommand}
        \cup {[kind |-> "write", arg |-> text] : text \in Texts \ {<<>>}}
        \cup {[kind |-> "delete", arg |-> count] :
                  count \in {c \in Counts : c >= 0}}
        \cup {[kind |-> "format", arg |-> size] :
                  size \in {f \in FontSizes : f > 0}}

\* command.execute()
execute(h, e, command, now) ==
    IF command.kind = "write" THEN WriteCommand(h, e, command.arg, now)
    ELSE IF command.kind = "delete"
    THEN DeleteCommand(h, e, command.arg, now)
    ELSE FormatCommand(h, e, command.arg, now)

\* executeCommand as it would be if it pushed the command before it looked
\* at it and ran it.
executeCommand_PushesFirst(n, h, e, command, now) ==
    IF command.kind = "null"
    THEN [thrown |-> TRUE, commands |-> n + 1, history |-> h, editor |-> e]
    ELSE LET x == execute(h, e, command, now)
         IN [thrown |-> x.thrown, commands |-> n + 1,
             history |-> x.history, editor |-> x.editor]

\* n = commands.length
executeCommand(n, h, e, command, now) ==
    IF command.kind = "null"
    THEN [thrown |-> TRUE, commands |-> n, history |-> h, editor |-> e]
    ELSE LET x == execute(h, e, command, now)
         IN [thrown |-> x.thrown,
             commands |-> IF x.thrown THEN n ELSE n + 1,
             history |-> x.history, editor |-> x.editor]

getExecutedCommands(n) == n

clearCommandHistory(n) == 0

\* ------------------------------------------------- the unvalidated variant
\* TextEditor and EditorSnapshot of src/TextEditor.ts and HistoryManager of
\* src/HistoryManager.ts:4-76: the same classes without argument checks,
\* without try/catch and without setMaxHistorySize.  The operators take an
\* editor that is present; nothing here throws on its own, and undo and
\* redo let the TypeError of editor.restore(undefined) escape.
BasicEditorSnapshot(c, pos, size, now) ==
    [content |-> c, cursorPosition |-> pos, fontSize |-> size,
     timestamp |-> now]

basic_write(e, text) ==
    LET before == substring(e.content, 0, e.cursorPosition)
        after == substring(e.content, e.cursorPosition, Len(e.content))
    IN [e EXCEPT !.content = before \o text \o after,
                 !.cursorPosition = @ + Len(text)]

basic_delete(e, count) ==
    IF e.cursorPosition >= count
    THEN LET before == substring(e.content, 0, e.cursorPosition - count)
             after == substring(e.content, e.cursorPosition, Len(e.content))
         IN [e EXCEPT !.content = before \o after,
                      !.cursorPosition = @ - count]
    ELSE e

basic_setCursor(e, position) ==
    [e EXCEPT !.cursorPosition = Max(0, Min(position, Len(e.content)))]

basic_setFontSize(e, size) == [e EXCEPT !.fontSize = size]

basic_createSnapshot(e, now) ==
    BasicEditorSnapshot(e.content, e.cursorPosition, e.fontSize, now)

basic_restore(e, snapshot) ==
    [content |-> snapshot.content,
     cursorPosition |-> snapshot.cursorPosition,
     fontSize |-> snapshot.fontSize]

\* saveState as it would be if it incremented currentIndex also when it
\* shifts the oldest snapshot out.
basic_saveState_AlwaysAdvances(h, e, now) ==
    LET kept == slice(h.snapshots, h.currentIndex + 1)
        pushed == Append(kept, basic_createSnapshot(e, now))
    IN IF Len(pushed) > h.maxHistorySize
       THEN [h EXCEPT !.snapshots = splice(pushed, 1),
                      !.currentIndex = @ + 1]
       ELSE [h EXCEPT !.snapshots = pushed, !.currentIndex = @ + 1]

basic_saveState(h, e, now) ==
    LET kept == slice(h.snapshots, h.currentIndex + 1)
        pushed == Append(kept, basic_createSnapshot(e, now))
    IN IF Len(pushed) > h.maxHistorySize
       THEN [h EXCEPT !.snapshots = splice(pushed, 1)]
       ELSE [h EXCEPT !.snapshots = pushed, !.currentIndex = @ + 1]

\* result is "true", "false" or, when snapshots[currentIndex] is undefined,
\* "throw" (currentIndex has moved by then).
basic_undo(h, e) ==
    IF h.currentIndex > 0
    THEN LET i == h.currentIndex - 1
             moved == [h EXCEPT !.currentIndex = i]
         IN IF i >= Len(h.snapshots)
            THEN [result |-> "throw", history |-> moved, editor |-> e]
            ELSE [result |-> "true", history |-> moved,
                  editor |-> basic_restore(e, h.snapshots[i + 1])]
    ELSE [result |-> "false", history |-> h, editor |-> e]

basic_redo(h, e) ==
    IF h.currentIndex < Len(h.snapshots) - 1
    THEN LET i == h.currentIndex + 1
             moved == [h EXCEPT !.currentIndex = i]
         IN IF i < 0
            THEN [result |-> "throw", history |-> moved, editor |-> e]
            ELSE [result |-> "true", history |-> moved,
                  editor |-> basic_restore(e, h.snapshots[i + 1])]
    ELSE [result |-> "false", history |-> h, editor |-> e]

basic_clearHistory(h) == [h EXCEPT !.snapshots = <<>>, !.currentIndex = -1]

\* ------------------------------------------------------------- program state
editor ==
    [content |-> content, cursorPosition |-> cursorPosition,
     fontSize |-> fontSize]

history ==
    [snapshots |-> snapshots, currentIndex |-> currentIndex,
     maxHistorySize |-> maxHistorySize]

SetEditor(e) ==
    /\ content' = e.content
    /\ cursorPosition' = e.cursorPosition
    /\ fontSize' = e.fontSize

SetHistory(h) ==
    /\ snapshots' = h.snapshots
    /\ currentIndex' = h.currentIndex
    /\ maxHistorySize' = h.maxHistorySize

\* The last call and its result are recorded when the behaviour started
\* with the record switched on (InitCalls).
Returned(op, arg, res) ==
    /\ IF lastOp = "off"
       THEN UNCHANGED <<lastOp, lastArg, lastResult>>
       ELSE /\ lastOp' = op
            /\ lastArg' = arg
            /\ lastResult' = res
    /\ UNCHANGED <<lastEditor, commands, executed, cleared, basic>>

\* The editor argument of saveState, undo and redo.
Given(present) == IF present THEN "editor" ELSE "null"

Outcome(thrown) == IF thrown THEN "throw" ELSE "void"

Bool(b) == IF b THEN "true" ELSE "false"

\* savesFromEmpty after one more successful saveState.
Saved(n) == IF n >= 0 THEN n + 1 ELSE -1

\* sinceClear after one more successful saveState.
SavedSinceClear(n) == IF n >= 0 THEN Min(n + 1, 2) ELSE -1

\* The unvalidated variant after construction (src/TextEditor.ts:3-5,
\* src/HistoryManager.ts:5-7).
NewBasic ==
    [editor |-> NewTextEditor,
     history |-> [snapshots |-> <<>>, currentIndex |-> -1,
                  maxHistorySize |-> DefaultMaxHistorySize],
     result |-> "void"]

Init ==
    /\ content = NewTextEditor.content
    /\ cursorPosition = NewTextEditor.cursorPosition
    /\ fontSize = NewTextEditor.fontSize
    /\ snapshots = <<>>
    /\ currentIndex = -1
    /\ maxHistorySize = DefaultMaxHistorySize
    /\ clock = 0
    /\ lastOp = "off"
    /\ lastArg = <<>>
    /\ lastResult = "off"
    /\ lastEditor = NewTextEditor
    /\ savesFromEmpty = 0
    /\ sinceClear = -1
    /\ trail = <<>>
    /\ commands = 0
    /\ executed = 0
    /\ cleared = 0
    /\ basic = NewBasic

InitCalls ==
    /\ content = NewTextEditor.content
    /\ cursorPosition = NewTextEditor.cursorPosition
    /\ fontSize = NewTextEditor.fontSize
    /\ snapshots = <<>>
    /\ currentIndex = -1
    /\ maxHistorySize = DefaultMaxHistorySize
    /\ clock = 0
    /\ lastOp = "new"
    /\ lastArg = <<>>
    /\ lastResult = "void"
    /\ lastEditor = NewTextEditor
    /\ savesFromEmpty = 0
    /\ sinceClear = -1
    /\ trail = <<>>
    /\ commands = 0
    /\ executed = 0
    /\ cleared = 0
    /\ basic = NewBasic

\* ------------------------------------------------------------------- actions
Write ==
    \E text \in Texts :
        /\ Len(content) + Len(text) <= MaxLen
        /\ LET r == write(editor, text)
           IN /\ SetEditor(r.editor)
              /\ Returned("write", text, Outcome(r.thrown))
        /\ UNCHANGED <<snapshots, currentIndex, maxHistorySize, clock,
                       savesFromEmpty, sinceClear, trail>>

Delete ==
    \E count \in Counts :
        /\ LET r == delete(editor, count)
           IN /\ SetEditor(r.editor)
              /\ Returned("delete", count, Outcome(r.thrown))
        /\ UNCHANGED <<snapshots, currentIndex, maxHistorySize, clock,
                       savesFromEmpty, sinceClear, trail>>

SetCursor ==
    \E position \in Positions :
        /\ LET r == setCursor(editor, position)
           IN /\ SetEditor(r.editor)
              /\ Returned("setCursor", position, Outcome(r.thrown))
        /\ UNCHANGED <<snapshots, currentIndex, maxHistorySize, clock,
                       savesFromEmpty, sinceClear, trail>>

SetFontSize ==
    \E size \in FontSizes :
        /\ LET r == setFontSize(editor, size)
           IN /\ SetEditor(r.editor)
              /\ Returned("setFontSize", size, Outcome(r.thrown))
        /\ UNCHANGED <<snapshots, currentIndex, maxHistorySize, clock,
                       savesFromEmpty, sinceClear, trail>>

SaveState ==
    \E present \in BOOLEAN :
        /\ clock < MaxSaves
        /\ LET r == saveState(history, editor, present, clock + 1)
           IN /\ SetHistory(r.history)
              /\ Returned("saveState", Given(present), Outcome(r.thrown))
              /\ savesFromEmpty' = IF r.thrown THEN savesFromEmpty
                                   ELSE Saved(savesFromEmpty)
              /\ sinceClear' = IF r.thrown THEN sinceClear
                               ELSE SavedSinceClear(sinceClear)
        /\ clock' = IF present THEN clock + 1 ELSE clock
        /\ UNCHANGED <<content, cursorPosition, fontSize, trail>>

Undo ==
    \E present \in BOOLEAN :
        /\ LET r == undo(history, editor, present)
           IN /\ SetHistory(r.history)
              /\ SetEditor(r.editor)
              /\ Returned("undo", Given(present), Bool(r.result))
        /\ savesFromEmpty' = -1
        /\ UNCHANGED <<clock, sinceClear, trail>>

Redo ==
    \E present \in BOOLEAN :
        /\ LET r == redo(history, editor, present)
           IN /\ SetHistory(r.history)
              /\ SetEditor(r.editor)
              /\ Returned("redo", Given(present), Bool(r.result))
        /\ savesFromEmpty' = -1
        /\ UNCHANGED <<clock, sinceClear, trail>>

CanUndo ==
    /\ Returned("canUndo", <<>>, Bool(canUndo(history)))
    /\ UNCHANGED <<content, cursorPosition, fontSize, snapshots,
                   currentIndex, maxHistorySize, clock, savesFromEmpty,
                   sinceClear, trail>>

CanRedo ==
    /\ Returned("canRedo", <<>>, Bool(canRedo(history)))
    /\ UNCHANGED <<content, cursorPosition, fontSize, snapshots,
                   currentIndex, maxHistorySize, clock, savesFromEmpty,
                   sinceClear, trail>>

GetHistoryInfo ==
    /\ getHistoryInfo(history) \in [snapshots : Nat, currentIndex : Int]
    /\ Returned("getHistoryInfo", <<>>, "void")
    /\ UNCHANGED <<content, cursorPosition, fontSize, snapshots,
                   currentIndex, maxHistorySize, clock, savesFromEmpty,
                   sinceClear, trail>>

ClearHistory ==
    /\ SetHistory(clearHistory(history))
    /\ Returned("clearHistory", <<>>, "void")
    /\ savesFromEmpty' = 0
    /\ sinceClear' = 0
    /\ UNCHANGED <<content, cursorPosition, fontSize, clock, trail>>

SetMaxHistorySize ==
    \E size \in Sizes :
        /\ LET r == setMaxHistorySize(history, size)
           IN /\ SetHistory(r.history)
              /\ Returned("setMaxHistorySize", size, Outcome(r.thrown))
              /\ savesFromEmpty' =
                     IF r.thrown THEN savesFromEmpty
                     ELSE IF r.history.snapshots = <<>> THEN 0 ELSE -1
        /\ UNCHANGED <<content, cursorPosition, fontSize, clock, sinceClear,
                       trail>>

ExecuteWrite ==
    \E text \in Texts :
        /\ clock < MaxSaves
        /\ Len(content) + Len(text) <= MaxLen
        /\ LET r == WriteCommand(history, editor, text, clock + 1)
           IN /\ SetHistory(r.history)
              /\ SetEditor(r.editor)
              /\ Returned("WriteCommand", text, Outcome(r.thrown))
              /\ savesFromEmpty' = IF r.saved THEN Saved(savesFromEmpty)
                                   ELSE savesFromEmpty
              /\ sinceClear' = IF r.saved THEN SavedSinceClear(sinceClear)
                               ELSE sinceClear
              /\ clock' = IF text = <<>> THEN clock ELSE clock + 1
        /\ UNCHANGED trail

ExecuteDelete ==
    \E count \in Counts :
        /\ clock < MaxSaves
        /\ LET r == DeleteCommand(history, editor, count, clock + 1)
           IN /\ SetHistory(r.history)
              /\ SetEditor(r.editor)
              /\ Returned("DeleteCommand", count, Outcome(r.thrown))
              /\ savesFromEmpty' = IF r.saved THEN Saved(savesFromEmpty)
                                   ELSE savesFromEmpty
              /\ sinceClear' = IF r.saved THEN SavedSinceClear(sinceClear)
                               ELSE sinceClear
              /\ clock' = IF count < 0 THEN clock ELSE clock + 1
        /\ UNCHANGED trail

ExecuteFormat ==
    \E size \in FontSizes :
        /\ clock < MaxSaves
        /\ LET r == FormatCommand(history, editor, size, clock + 1)
           IN /\ SetHistory(r.history)
              /\ SetEditor(r.editor)
              /\ Returned("FormatCommand", size, Outcome(r.thrown))
              /\ savesFromEmpty' = IF r.saved THEN Saved(savesFromEmpty)
                                   ELSE savesFromEmpty
              /\ sinceClear' = IF r.saved THEN SavedSinceClear(sinceClear)
                               ELSE sinceClear
              /\ clock' = IF size <= 0 THEN clock ELSE clock + 1
        /\ UNCHANGED trail

Next ==
    \/ Write
    \/ Delete
    \/ SetCursor
    \/ SetFontSize
    \/ SaveState
    \/ Undo
    \/ Redo
    \/ CanUndo
    \/ CanRedo
    \/ GetHistoryInfo
    \/ ClearHistory
    \/ SetMaxHistorySize
    \/ ExecuteWrite
    \/ ExecuteDelete
    \/ ExecuteFormat

\* Any sequence of calls on a new editor and a new history.
Spec == Init /\ [][Next]_vars

\* A session driven as the command-line interface drives it: the document
\* changes through commands (or an undo or redo) only; the last call and its
\* result are on record.
NextCalls ==
    \/ ExecuteWrite
    \/ ExecuteDelete
    \/ ExecuteFormat
    \/ SaveState
    \/ Undo
    \/ Redo
    \/ CanUndo
    \/ CanRedo
    \/ GetHistoryInfo
    \/ ClearHistory
    \/ SetMaxHistorySize

SpecCalls == InitCalls /\ [][NextCalls]_vars

\* The methods of the editor and of the history called directly, without
\* commands, with the last call, its argument and its result on record.
NextDirect ==
    \/ Write
    \/ Delete
    \/ SetCursor
    \/ SetFontSize
    \/ SaveState
    \/ Undo
    \/ Redo
    \/ SetMaxHistorySize

SpecDirect == InitCalls /\ [][NextDirect]_vars

\* Every public method of the editor and of the history called directly,
\* queries and clearHistory included, with the last call, its argument and
\* its result on record; saveState constructs MaxMethodSaves snapshots at
\* most.
SaveStateWithin ==
    /\ clock < MaxMethodSaves
    /\ SaveState

NextMethods ==
    \/ Write
    \/ Delete
    \/ SetCursor
    \/ SetFontSize
    \/ SaveStateWithin
    \/ Undo
    \/ Redo
    \/ CanUndo
    \/ CanRedo
    \/ GetHistoryInfo
    \/ ClearHistory
    \/ SetMaxHistorySize

SpecMethods == InitCalls /\ [][NextMethods]_vars

\* ------------------------------------------------------------------ SpecDemo
\* The calls of runDemo and of the README's code example, in any order and
\* number up to MaxTrail, on a new editor and a new history; trail records
\* each call with its argument, its result and the state it left.
Hello == <<"H", "e", "l", "l", "o">>
World == <<" ", "W", "o", "r", "l", "d", "!">>
DemoTexts == {Hello, World}

Called(op, arg, res, e, h) ==
    /\ Len(trail) < MaxTrail
    /\ trail' = Append(trail, [op |-> op, arg |-> arg, result |-> res,
                               editor |-> e, info |-> getHistoryInfo(h)])
    /\ SetEditor(e)
    /\ SetHistory(h)
    /\ UNCHANGED <<lastOp, lastArg, lastResult, lastEditor, savesFromEmpty,
                   sinceClear, commands, executed, cleared, basic>>

DemoSaveState ==
    LET r == saveState(history, editor, TRUE, clock + 1)
    IN /\ Called("saveState", <<>>, Outcome(r.thrown), editor, r.history)
       /\ clock' = clock + 1

DemoWrite ==
    \E text \in DemoTexts :
        LET r == write(editor, text)
        IN /\ Called("write", text, Outcome(r.thrown), r.editor, history)
           /\ UNCHANGED clock

DemoUndo ==
    LET r == undo(history, editor, TRUE)
    IN /\ Called("undo", <<>>, Bool(r.result), r.editor, r.history)
       /\ UNCHANGED clock

DemoRedo ==
    LET r == redo(history, editor, TRUE)
    IN /\ Called("redo", <<>>, Bool(r.result), r.editor, r.history)
       /\ UNCHANGED clock

DemoNext ==
    \/ DemoSaveState
    \/ DemoWrite
    \/ DemoUndo
    \/ DemoRedo

SpecDemo == Init /\ [][DemoNext]_vars

\* --------------------------------------------------------------- SpecInvoker
\* Commands run through an EditorInvoker, next to the calls of the history
\* that the command-line interface makes on its own.
CalledInvoker(op, arg, res) ==
    /\ lastOp' = op
    /\ lastArg' = arg
    /\ lastResult' = res
    /\ UNCHANGED <<lastEditor, trail, basic>>

ExecuteCommand ==
    \E command \in Commands :
        /\ clock < MaxSaves
        /\ command.kind = "write" =>
               Len(content) + Len(command.arg) <= MaxLen
        /\ LET r == executeCommand(commands, history, editor, command,
                                   clock + 1)
               saved == command.kind # "null" /\ ~r.thrown
           IN /\ SetHistory(r.history)
              /\ SetEditor(r.editor)
              /\ commands' = r.commands
              /\ executed' = IF r.thrown THEN executed ELSE executed + 1
              /\ CalledInvoker("executeCommand", command, Outcome(r.thrown))
              /\ savesFromEmpty' = IF saved THEN Saved(savesFromEmpty)
                                   ELSE savesFromEmpty
              /\ sinceClear' = IF saved THEN SavedSinceClear(sinceClear)
                               ELSE sinceClear
        /\ clock' = IF command.kind = "null" THEN clock ELSE clock + 1
        /\ UNCHANGED cleared

GetExecutedCommands ==
    /\ CalledInvoker("getExecutedCommands", <<>>,
                     getExecutedCommands(commands))
    /\ UNCHANGED <<content, cursorPosition, fontSize, snapshots,
                   currentIndex, maxHistorySize, clock, savesFromEmpty,
                   sinceClear, commands, executed, cleared>>

ClearCommandHistory ==
    /\ commands' = clearCommandHistory(commands)
    /\ cleared' = executed
    /\ CalledInvoker("clearCommandHistory", <<>>, "void")
    /\ UNCHANGED <<content, cursorPosition, fontSize, snapshots,
                   currentIndex, maxHistorySize, clock, savesFromEmpty,
                   sinceClear, executed>>

InvokerNext ==
    \/ ExecuteCommand
    \/ GetExecutedCommands
    \/ ClearCommandHistory
    \/ Undo
    \/ Redo
    \/ ClearHistory
    \/ SetMaxHistorySize

SpecInvoker == InitCalls /\ [][InvokerNext]_vars

\* ---------------------------------------------------------------- SpecEditor
\* The four mutators of a TextEditor called in any order on a new editor,
\* with no history: the cursor moves freely through texts of up to MaxText
\* characters.
CalledEditor(op, arg, r) ==
    /\ SetEditor(r.editor)
    /\ lastOp' = op
    /\ lastArg' = arg
    /\ lastResult' = Outcome(r.thrown)
    /\ lastEditor' = editor
    /\ UNCHANGED <<snapshots, currentIndex, maxHistorySize, clock,
                   savesFromEmpty, sinceClear, trail, commands, executed,
                   cleared, basic>>

EditorWrite ==
    \E text \in EditorTexts :
        /\ Len(content) + Len(text) <= MaxText
        /\ CalledEditor("write", text, write(editor, text))

EditorDelete ==
    \E count \in EditorCounts :
        CalledEditor("delete", count, delete(editor, count))

EditorSetCursor ==
    \E position \in EditorPositions :
        CalledEditor("setCursor", position, setCursor(editor, position))

EditorSetFontSize ==
    \E size \in FontSizes :
        CalledEditor("setFontSize", size, setFontSize(editor, size))

EditorNext ==
    \/ EditorWrite
    \/ EditorDelete
    \/ EditorSetCursor
    \/ EditorSetFontSize

SpecEditor == InitCalls /\ [][EditorNext]_vars

\* -------------------------------------------------------------- SpecVariants
\* The two variants driven side by side: every step makes the same call
\* with the same valid arguments (a text that is not empty, a count and a
\* position that are not negative, a positive font size, an editor that is
\* present) on the validated classes, held in the program variables, and on
\* the unvalidated classes, held in basic.  The n-th snapshot of either
\* variant is constructed at the same step, so both carry timestamp n.
ValidTexts == Texts \ {<<>>}
ValidCounts == {count \in Counts : count >= 0}
ValidPositions == 0 .. (MaxLen + 1)
ValidFontSizes == {size \in FontSizes : size > 0}

\* A history after DefaultMaxHistorySize calls of saveState on a new editor
\* and a new history, which fill it: the next saveState shifts the oldest
\* snapshot out.
FullHistory ==
    [snapshots |->
         [i \in 1 .. DefaultMaxHistorySize |->
              [content |-> NewTextEditor.content,
               cursorPosition |-> NewTextEditor.cursorPosition,
               fontSize |-> NewTextEditor.fontSize,
               timestamp |-> i]],
     currentIndex |-> DefaultMaxHistorySize - 1,
     maxHistorySize |-> DefaultMaxHistorySize]

\* Both variants are new, or both have just filled their history.
InitVariants ==
    \/ /\ InitCalls
    \/ /\ content = NewTextEditor.content
       /\ cursorPosition = NewTextEditor.cursorPosition
       /\ fontSize = NewTextEditor.fontSize
       /\ snapshots = FullHistory.snapshots
       /\ currentIndex = FullHistory.currentIndex
       /\ maxHistorySize = FullHistory.maxHistorySize
       /\ clock = DefaultMaxHistorySize
       /\ lastOp = "saveState"
       /\ lastArg = <<>>
       /\ lastResult = "void"
       /\ lastEditor = NewTextEditor
       /\ savesFromEmpty = -1
       /\ sinceClear = -1
       /\ trail = <<>>
       /\ commands = 0
       /\ executed = 0
       /\ cleared = 0
       /\ basic = [NewBasic EXCEPT !.history = FullHistory]

\* The snapshots constructed since the initial state.
Constructed ==
    IF clock >= DefaultMaxHistorySize
    THEN clock - DefaultMaxHistorySize
    ELSE clock

\* The call and what the validated variant returned are recorded, the
\* argument is not.
CalledBoth(op, res) ==
    /\ lastOp' = op
    /\ lastResult' = res
    /\ UNCHANGED <<lastArg, lastEditor, savesFromEmpty, sinceClear, trail,
                   commands, executed, cleared>>

BothWrite ==
    \E text \in ValidTexts :
        /\ Len(content) + Len(text) <= MaxLen
        /\ LET r == write(editor, text)
           IN /\ SetEditor(r.editor)
              /\ CalledBoth("write", Outcome(r.thrown))
        /\ basic' = [basic EXCEPT !.editor = basic_write(@, text),
                                  !.result = "void"]
        /\ UNCHANGED <<snapshots, currentIndex, maxHistorySize, clock>>

BothDelete ==
    \E count \in ValidCounts :
        /\ LET r == delete(editor, count)
           IN /\ SetEditor(r.editor)
              /\ CalledBoth("delete", Outcome(r.thrown))
        /\ basic' = [basic EXCEPT !.editor = basic_delete(@, count),
                                  !.result = "void"]
        /\ UNCHANGED <<snapshots, currentIndex, maxHistorySize, clock>>

BothSetCursor ==
    \E position \in ValidPositions :
        /\ LET r == setCursor(editor, position)
           IN /\ SetEditor(r.editor)
              /\ CalledBoth("setCursor", Outcome(r.thrown))
        /\ basic' = [basic EXCEPT !.editor = basic_setCursor(@, position),
                                  !.result = "void"]
        /\ UNCHANGED <<snapshots, currentIndex, maxHistorySize, clock>>

BothSetFontSize ==
    \E size \in ValidFontSizes :
        /\ LET r == setFontSize(editor, size)
           IN /\ SetEditor(r.editor)
              /\ CalledBoth("setFontSize", Outcome(r.thrown))
        /\ basic' = [basic EXCEPT !.editor = basic_setFontSize(@, size),
                                  !.result = "void"]
        /\ UNCHANGED <<snapshots, currentIndex, maxHistorySize, clock>>

BothSaveState ==
    /\ Constructed < MaxVariantSaves
    /\ LET r == saveState(history, editor, TRUE, clock + 1)
       IN /\ SetHistory(r.history)
          /\ CalledBoth("saveState", Outcome(r.thrown))
    /\ basic' = [basic EXCEPT
                     !.history = basic_saveState(@, basic.editor, clock + 1),
                     !.result = "void"]
    /\ clock' = clock + 1
    /\ UNCHANGED <<content, cursorPosition, fontSize>>

\* undo is called down to MaxVariantSaves snapshots behind the newest one,
\* which limits it in a history that started full only.
BothUndo ==
    /\ Len(snapshots) - 1 - currentIndex < MaxVariantSaves
    /\ LET r == undo(history, editor, TRUE)
       IN /\ SetHistory(r.history)
          /\ SetEditor(r.editor)
          /\ CalledBoth("undo", Bool(r.result))
    /\ LET b == basic_undo(basic.history, basic.editor)
       IN basic' = [editor |-> b.editor, history |-> b.history,
                    result |-> b.result]
    /\ UNCHANGED clock

BothRedo ==
    /\ LET r == redo(history, editor, TRUE)
       IN /\ SetHistory(r.history)
          /\ SetEditor(r.editor)
          /\ CalledBoth("redo", Bool(r.result))
    /\ LET b == basic_redo(basic.history, basic.editor)
       IN basic' = [editor |-> b.editor, history |-> b.history,
                    result |-> b.result]
    /\ UNCHANGED clock

BothClearHistory ==
    /\ SetHistory(clearHistory(history))
    /\ CalledBoth("clearHistory", "void")
    /\ basic' = [basic EXCEPT !.history = basic_clearHistory(@),
                              !.result = "void"]
    /\ UNCHANGED <<content, cursorPosition, fontSize, clock>>

VariantsNext ==
    \/ BothWrite
    \/ BothDelete
    \/ BothSetCursor
    \/ BothSetFontSize
    \/ BothSaveState
    \/ BothUndo
    \/ BothRedo
    \/ BothClearHistory

SpecVariants == InitVariants /\ [][VariantsNext]_vars

\* -------------------------------------------------------------------- claims
\* The editor a snapshot holds.
Held(snapshot) ==
    [content |-> snapshot.content,
     cursorPosition |-> snapshot.cursorPosition,
     fontSize |-> snapshot.fontSize]

\* The editor before the n-th call of the trail.
EditorBefore(n) == IF n = 1 THEN NewTextEditor ELSE trail[n - 1].editor

\* C1: saveState, then one mutation of the document, then undo: the undo
\* returns true and leaves text, cursor and font size as they were at the
\* moment of the saveState.
C1_UndoRestoresSavedState ==
    LET n == Len(trail)
    IN (/\ n >= 3
        /\ trail[n - 2].op = "saveState"
        /\ trail[n - 2].result = "void"
        /\ trail[n - 1].op = "write"
        /\ trail[n].op = "undo")
       => /\ trail[n].result = "true"
          /\ trail[n].editor = trail[n - 2].editor

\* C2: a redo right after an undo that returned true returns true and leaves
\* text, cursor and font size as they were immediately before that undo.
C2_RedoRestoresStateBeforeUndo ==
    LET n == Len(trail)
    IN (/\ n >= 2
        /\ trail[n - 1].op = "undo"
        /\ trail[n - 1].result = "true"
        /\ trail[n].op = "redo")
       => /\ trail[n].result = "true"
          /\ trail[n].editor = EditorBefore(n - 1)

\* C3: on a new editor and history, saveState; write("Hello"); saveState;
\* write(" World!"); undo; undo; undo; redo gives: "Hello" with cursor 5 and
\* true; "" with cursor 0 and true; false with nothing changed; "Hello" with
\* cursor 5 and true.
Script ==
    << <<"saveState", <<>> >>, <<"write", Hello>>, <<"saveState", <<>> >>,
       <<"write", World>>, <<"undo", <<>> >>, <<"undo", <<>> >>,
       <<"undo", <<>> >>, <<"redo", <<>> >> >>

Followed(n) ==
    /\ Len(trail) >= n
    /\ \A i \in 1 .. n : <<trail[i].op, trail[i].arg>> = Script[i]

Shows(n, res, text, pos) ==
    /\ trail[n].result = res
    /\ trail[n].editor.content = text
    /\ trail[n].editor.cursorPosition = pos

C3_DemoTrace ==
    /\ Followed(5) => Shows(5, "true", Hello, 5)
    /\ Followed(6) => Shows(6, "true", <<>>, 0)
    /\ Followed(7) => /\ trail[7].result = "false"
                      /\ trail[7].editor = trail[6].editor
                      /\ trail[7].info = trail[6].info
    /\ Followed(8) => Shows(8, "true", Hello, 5)

\* ------------------------------------------------------ claims about Spec
Range(f) == {f[i] : i \in DOMAIN f}

\* The fields of the two objects, without the bookkeeping of the model.
program ==
    <<content, cursorPosition, fontSize, snapshots, currentIndex,
      maxHistorySize>>

\* The step constructed a snapshot: it was a saveState on a present editor
\* or the execute() of a command.
SavedStep == clock' = clock + 1

\* C4: a saveState removes every snapshot beyond currentIndex before it
\* appends, a removed snapshot never comes back, and from a saveState on
\* canRedo is false (redo returns false) until an undo returns true.
C4_SaveDiscardsRedoBranch ==
    [][/\ SavedStep =>
            /\ \A j \in 1 .. Len(snapshots) :
                   j > currentIndex + 1 => snapshots[j] \notin Range(snapshots')
            /\ ~canRedo(history')
            /\ ~redo(history', editor', TRUE).result
       /\ \A s \in Range(snapshots') :
              s \in Range(snapshots) \/ s.timestamp > clock
       /\ (~canRedo(history) /\ canRedo(history')) =>
              /\ undo(history, editor, TRUE).result
              /\ history' = undo(history, editor, TRUE).history]_vars

\* A saveState has cut off a redo branch: a snapshot between two kept ones
\* is missing.
C4_Witness ==
    \E i \in 1 .. Len(snapshots) - 1 :
        /\ snapshots[i + 1].timestamp > snapshots[i].timestamp + 1
        /\ currentIndex = i

\* C5: with maxHistorySize = N, after more than N successive saveState calls
\* on an empty history exactly N snapshots are stored, and currentIndex never
\* exceeds N - 1 on the way.
C5_CountPinnedAtCapacity ==
    savesFromEmpty >= 0 =>
        /\ currentIndex <= maxHistorySize - 1
        /\ savesFromEmpty > maxHistorySize => Len(snapshots) = maxHistorySize

C5_Witness == savesFromEmpty > maxHistorySize

\* C6: currentIndex is -1 exactly when there is no snapshot, and otherwise
\* 0 <= currentIndex < number of snapshots.
C6_IndexInRange ==
    /\ currentIndex = -1 <=> snapshots = <<>>
    /\ snapshots # <<>> => 0 <= currentIndex /\ currentIndex < Len(snapshots)

\* Of MaxSaves snapshots only the newest is left, at index 0, after calls that
\* were not all saves (an undo, a redo, a trimming setMaxHistorySize).
C6_Witness ==
    /\ savesFromEmpty = -1
    /\ maxHistorySize = 1
    /\ currentIndex = 0
    /\ Len(snapshots) = 1
    /\ snapshots[1].timestamp = MaxSaves

\* C7: the number of snapshots never exceeds maxHistorySize.
C7_CountWithinCapacity == Len(snapshots) <= maxHistorySize

\* As many snapshots as allowed, the oldest ones gone.
C7_Witness ==
    /\ Len(snapshots) = maxHistorySize
    /\ maxHistorySize > 1
    /\ snapshots[1].timestamp > 1

\* The snapshot a saveState makes of the document at this step.
Capture ==
    [content |-> content, cursorPosition |-> cursorPosition,
     fontSize |-> fontSize, timestamp |-> clock + 1]

\* C11: a saveState whose history, cut after currentIndex, is already full
\* removes exactly the snapshot at index 0, keeps the others in order with
\* the new one last, and leaves currentIndex as it was with maxHistorySize
\* snapshots stored; every other saveState appends the new snapshot to the
\* cut history and increments currentIndex by exactly 1.
C11_SaveEvictsOldestOrAdvances ==
    [][SavedStep =>
          LET kept == SubSeq(snapshots, 1, currentIndex + 1)
          IN IF Len(kept) + 1 > maxHistorySize
             THEN /\ snapshots' = Tail(kept) \o <<Capture>>
                  /\ currentIndex' = currentIndex
                  /\ Len(snapshots') = maxHistorySize
             ELSE /\ snapshots' = kept \o <<Capture>>
                  /\ currentIndex' = currentIndex + 1]_vars

\* A full history of more than one snapshot has taken one more: the oldest
\* is gone, the newest is the last.
C11_Witness ==
    /\ savesFromEmpty > maxHistorySize
    /\ maxHistorySize > 1
    /\ currentIndex = maxHistorySize - 1
    /\ snapshots[1].timestamp = clock - maxHistorySize + 1
    /\ snapshots[Len(snapshots)].timestamp = clock

\* C16: after any sequence of write, delete, setCursor, setFontSize,
\* saveState, undo and redo, accepted or rejected (and of the other calls),
\* 0 <= cursorPosition <= length of content, and fontSize is a positive
\* integer.
C16_DocumentWellFormed ==
    /\ cursorPosition \in 0 .. Len(content)
    /\ fontSize \in Nat \ {0}

\* An undo has brought back a shorter text, with its cursor and a font size
\* that is not the default.
C16_Witness ==
    /\ canRedo(history)
    /\ editor = Held(snapshots[currentIndex + 1])
    /\ Len(content) < Len(snapshots[currentIndex + 2].content)
    /\ fontSize # DefaultFontSize

\* C21: only saveState adds a snapshot: across every step of undo, redo,
\* clearHistory, setMaxHistorySize, canUndo, canRedo, getHistoryInfo or a
\* mutator of the document (every step that is not a saveState, alone or in
\* a command), each snapshot stored after the step was stored before it and
\* the number of snapshots does not increase.
C21_OnlySaveStateAdds ==
    [][~SavedStep =>
          /\ Range(snapshots') \subseteq Range(snapshots)
          /\ Len(snapshots') <= Len(snapshots)]_vars

\* After several saves and a trim to one snapshot the newest snapshot alone
\* is left, and the document has changed since.
C21_Witness ==
    /\ savesFromEmpty = -1
    /\ maxHistorySize = 1
    /\ Len(snapshots) = 1
    /\ snapshots[1].timestamp = clock
    /\ clock > 1
    /\ editor # Held(snapshots[1])

\* C25: in every reachable state createSnapshot succeeds and the snapshot
\* passes isValid, so a saveState on a present editor never throws and no
\* step leaves the history cut after currentIndex with nothing appended.
C25_SnapshotAlwaysValid ==
    /\ [](LET made == createSnapshot(editor, clock + 1)
          IN /\ ~made.thrown
             /\ isValid(made.snapshot)
             /\ ~saveState(history, editor, TRUE, clock + 1).thrown)
    /\ [][~(/\ snapshots' # snapshots
            /\ snapshots' = SubSeq(snapshots, 1, currentIndex + 1))]_vars

\* A saveState of a document with a text and a font size of its own has cut
\* off a redo branch and appended its snapshot.
C25_Witness ==
    /\ Len(snapshots) > 1
    /\ currentIndex = Len(snapshots) - 1
    /\ snapshots[currentIndex + 1].timestamp = clock
    /\ snapshots[currentIndex].timestamp < clock - 1
    /\ snapshots[currentIndex + 1].content # <<>>
    /\ snapshots[currentIndex + 1].fontSize # DefaultFontSize

\* C26: every stored snapshot satisfies 0 <= cursorPosition <= length of
\* content, and its fontSize is a positive integer.
C26_SnapshotsWellFormed ==
    \A i \in 1 .. Len(snapshots) :
        /\ snapshots[i].cursorPosition \in 0 .. Len(snapshots[i].content)
        /\ snapshots[i].fontSize \in Nat \ {0}

\* A snapshot holds a text with the cursor behind it, made after a delete
\* and before the document changed again.
C26_Witness ==
    \E i \in 1 .. Len(snapshots) - 1 :
        /\ snapshots[i].content # <<>>
        /\ snapshots[i + 1].content = <<>>
        /\ snapshots[i + 1].cursorPosition = 0
        /\ content # <<>>

\* The number of undo calls in a row that return true, of at most k.
RECURSIVE UndoRun(_, _, _)
UndoRun(h, e, k) ==
    IF k = 0
    THEN 0
    ELSE LET u == undo(h, e, TRUE)
         IN IF u.result THEN 1 + UndoRun(u.history, u.editor, k - 1) ELSE 0

\* C29: with currentIndex = i >= 0, exactly i undo calls in a row return
\* true and the next returns false; so at most (number of snapshots - 1)
\* <= maxHistorySize - 1 undos in a row succeed, and with maxHistorySize = 1
\* undo never returns true.
C29_UndoRunLength ==
    /\ currentIndex >= 0 =>
           /\ UndoRun(history, editor, Len(snapshots) + 1) = currentIndex
           /\ currentIndex <= Len(snapshots) - 1
           /\ Len(snapshots) - 1 <= maxHistorySize - 1
    /\ maxHistorySize = 1 => ~undo(history, editor, TRUE).result

\* All the undos that MaxSaves snapshots allow have been made: the
\* document is the oldest snapshot with the others ahead of it.
C29_Witness ==
    /\ currentIndex = 0
    /\ Len(snapshots) = MaxSaves
    /\ savesFromEmpty = -1
    /\ editor = Held(snapshots[1])
    /\ editor # Held(snapshots[2])

\* ------------------------------------------------- claims about SpecCalls
\* C8: undo with currentIndex <= 0 and redo with currentIndex at the last
\* snapshot (or on an empty history) return false, raise nothing and change
\* neither the history nor the document.
C8_BoundaryIsNoOp ==
    [][(\/ lastOp' = "undo" /\ currentIndex <= 0
        \/ lastOp' = "redo" /\ currentIndex = Len(snapshots) - 1)
       => /\ lastResult' = "false"
          /\ UNCHANGED program]_vars

C8_Witness ==
    /\ lastOp = "undo"
    /\ lastResult = "false"
    /\ currentIndex = 0
    /\ Len(snapshots) > 1
    /\ editor # Held(snapshots[1])

C10_QueriesMirrorGuards ==
    /\ [](/\ canUndo(history) <=> undo(history, editor, TRUE).result
          /\ canRedo(history) <=> redo(history, editor, TRUE).result)
    /\ [][/\ lastOp' \in {"canUndo", "canRedo", "getHistoryInfo"} =>
                 UNCHANGED program
          /\ lastOp' = "canUndo" =>
                 lastResult' = Bool(undo(history, editor, TRUE).result)
          /\ lastOp' = "canRedo" =>
                 lastResult' = Bool(redo(history, editor, TRUE).result)]_vars

C10_Witness ==
    /\ lastOp = "canRedo"
    /\ lastResult = "true"
    /\ ~canUndo(history)

\* C12: setMaxHistorySize(n) with a positive n smaller than the number of
\* snapshots removes exactly the oldest (number - n) of them, keeps the
\* newest n in order and sets currentIndex to max(0, currentIndex - removed);
\* with n not smaller it changes maxHistorySize only.
C12_SetMaxTrimsOldest ==
    [][lastOp' = "setMaxHistorySize" =>
          /\ lastArg' > 0 => lastResult' = "void"
          /\ lastResult' = "void" =>
                LET n == lastArg'
                    evicted == Len(snapshots) - n
                IN /\ n > 0
                   /\ maxHistorySize' = n
                   /\ UNCHANGED <<content, cursorPosition, fontSize>>
                   /\ IF n < Len(snapshots)
                      THEN /\ Len(snapshots') = n
                           /\ \A j \in 1 .. n :
                                  snapshots'[j] = snapshots[evicted + j]
                           /\ currentIndex' =
                                  IF currentIndex - evicted > 0
                                  THEN currentIndex - evicted ELSE 0
                      ELSE UNCHANGED <<snapshots, currentIndex>>]_vars

\* The trim has removed the oldest snapshot of MaxSaves and the one
\* currentIndex pointed to: currentIndex is 0 and the newest two are left.
C12_Witness ==
    /\ lastOp = "setMaxHistorySize"
    /\ lastResult = "void"
    /\ lastArg = 2
    /\ Len(snapshots) = 2
    /\ currentIndex = 0
    /\ snapshots[1].timestamp = MaxSaves - 1
    /\ snapshots[2].timestamp = MaxSaves


\* C13: clearHistory leaves no snapshot and currentIndex = -1, and leaves
\* maxHistorySize and the document as they were; from then on undo and redo
\* return false as long as fewer than two saveState calls have followed.
C13_ClearEmptiesHistory ==
    /\ [](sinceClear \in {0, 1} =>
              /\ ~undo(history, editor, TRUE).result
              /\ ~redo(history, editor, TRUE).result)
    /\ [][/\ lastOp' = "clearHistory" =>
                 /\ snapshots' = <<>>
                 /\ currentIndex' = -1
                 /\ UNCHANGED <<maxHistorySize, content, cursorPosition,
                                fontSize>>
          /\ (lastOp' \in {"undo", "redo"} /\ sinceClear' \in {0, 1}) =>
                 /\ lastResult' = "false"
                 /\ UNCHANGED <<content, cursorPosition, fontSize>>]_vars

\* A history of two snapshots was cleared, one saveState followed, and an
\* undo on the changed document has returned false.
C13_Witness ==
    /\ lastOp = "undo"
    /\ lastArg = "editor"
    /\ lastResult = "false"
    /\ sinceClear = 1
    /\ clock = MaxSaves
    /\ Len(snapshots) = 1
    /\ editor # Held(snapshots[1])

\* C14: when the execute() of a Write, Delete or Format command returns, one
\* snapshot has been made, the history has changed as one saveState changes
\* it, the snapshot at currentIndex is the last one and holds the document as
\* it was before the command changed it, and the document has changed as the
\* command's method changes it.
C14_CommandSavesBeforeMutating ==
    [][(/\ lastOp' \in {"WriteCommand", "DeleteCommand", "FormatCommand"}
        /\ lastResult' = "void")
       => /\ clock' = clock + 1
          /\ history' = saveState(history, editor, TRUE, clock + 1).history
          /\ currentIndex' = Len(snapshots') - 1
          /\ snapshots'[currentIndex' + 1] = Capture
          /\ lastOp' = "WriteCommand" =>
                 editor' = write(editor, lastArg').editor
          /\ lastOp' = "DeleteCommand" =>
                 editor' = delete(editor, lastArg').editor
          /\ lastOp' = "FormatCommand" =>
                 editor' = setFontSize(editor, lastArg').editor]_vars

\* A write command has run on a full history: the last snapshot holds the
\* document without the text written, and the oldest snapshot is gone.
C14_Witness ==
    /\ lastOp = "WriteCommand"
    /\ lastResult = "void"
    /\ Len(snapshots) = maxHistorySize
    /\ currentIndex = Len(snapshots) - 1
    /\ snapshots[1].timestamp > 1
    /\ content # snapshots[currentIndex + 1].content

\* C20: a call that is given no editor raises an error to its caller instead
\* of returning a value: saveState, and in particular undo and redo, which
\* do not return false.
C20_AbsentDocumentRaises ==
    (lastOp \in {"saveState", "undo", "redo"} /\ lastArg = "null")
        => lastResult = "throw"

\* C27: right after every saveState that returns, one that evicts the
\* oldest snapshot included, currentIndex = number of snapshots - 1 and the
\* snapshot there is the one just made and holds the document's content,
\* cursorPosition and fontSize.
C27_SaveLeavesIndexAtNewest ==
    [][(lastOp' = "saveState" /\ lastResult' = "void") =>
          /\ snapshots' # <<>>
          /\ currentIndex' = Len(snapshots') - 1
          /\ snapshots'[currentIndex' + 1].timestamp = clock + 1
          /\ Held(snapshots'[currentIndex' + 1]) = editor']_vars

\* A saveState on a full history of two snapshots has evicted the oldest.
C27_Witness ==
    /\ lastOp = "saveState"
    /\ lastResult = "void"
    /\ maxHistorySize = 2
    /\ savesFromEmpty > maxHistorySize
    /\ currentIndex = 1
    /\ Held(snapshots[2]) = editor
    /\ Held(snapshots[1]) # editor

C30_SetMaxKeepsCurrentSnapshot ==
    [][(/\ lastOp' = "setMaxHistorySize"
        /\ lastResult' = "void"
        /\ snapshots # <<>>)
       => LET old == snapshots[currentIndex + 1]
              removed == IF Len(snapshots) > lastArg'
                         THEN Len(snapshots) - lastArg' ELSE 0
          IN /\ UNCHANGED <<content, cursorPosition, fontSize>>
             /\ IF currentIndex >= removed
                THEN /\ old \in Range(snapshots')
                     /\ snapshots'[currentIndex' + 1] = old
                ELSE /\ old \notin Range(snapshots')
                     /\ currentIndex' = 0
                     /\ snapshots'[1] = snapshots[removed + 1]]_vars

\* setMaxHistorySize(2) has removed the oldest of MaxSaves snapshots, the one
\* the document was restored from by the undos before: currentIndex is 0, at
\* a snapshot the document is not equal to.
C30_Witness ==
    /\ lastOp = "setMaxHistorySize"
    /\ lastResult = "void"
    /\ lastArg = 2
    /\ Len(snapshots) = 2
    /\ currentIndex = 0
    /\ snapshots[1].timestamp = MaxSaves - 1
    /\ snapshots[2].timestamp = MaxSaves
    /\ editor # Held(snapshots[1])

\* ----------------------------------------------- claims about SpecInvoker
\* What the invoker leaves alone: the calls of the history do not change
\* its count, and it changes the document and the history only by running
\* the command's execute().
InvokerFrame ==
    /\ lastOp' \in {"undo", "redo", "clearHistory", "setMaxHistorySize"} =>
           commands' = commands
    /\ lastOp' \in {"getExecutedCommands", "clearCommandHistory"} =>
           UNCHANGED program
    /\ lastOp' = "executeCommand" =>
           IF lastArg'.kind = "null"
           THEN UNCHANGED program
           ELSE LET x == execute(history, editor, lastArg', clock + 1)
                IN /\ history' = x.history
                   /\ editor' = x.editor

\* C23 as claimed: the invoker's count of executed commands equals the
\* number of executeCommand calls whose execute() returned; undo, redo,
\* clearHistory and setMaxHistorySize never change it, and the invoker
\* changes the document and the history only through the command's
\* execute().
C23_CountEqualsExecuted ==
    /\ [](commands = executed)
    /\ [][InvokerFrame]_vars

\* C23 as amended: the count equals the number of executeCommand calls
\* whose execute() returned since the last clearCommandHistory (or since
\* construction); the rest as claimed.
C23_CountSinceClear ==
    /\ [](commands = executed - cleared)
    /\ [][InvokerFrame]_vars

\* Two commands ran after a clearCommandHistory that followed a first one,
\* and an undo has returned true since.
C23_Witness ==
    /\ lastOp = "undo"
    /\ lastResult = "true"
    /\ cleared = 1
    /\ commands = 2

\* ------------------------------------------------ claims about SpecEditor
\* C15: for every document and every non-empty text, write(text) followed
\* at once by delete(length of text) leaves content and cursorPosition as
\* they were before the write.
C15_WriteThenDeleteRestores ==
    /\ [](\A text \in EditorTexts \ {<<>>} :
              LET w == write(editor, text)
                  d == delete(w.editor, Len(text))
              IN /\ ~w.thrown
                 /\ ~d.thrown
                 /\ d.editor.content = content
                 /\ d.editor.cursorPosition = cursorPosition)
    /\ [][(/\ lastOp = "write"
           /\ lastResult = "void"
           /\ lastOp' = "delete"
           /\ lastArg' = Len(lastArg))
          => /\ lastResult' = "void"
             /\ content' = lastEditor.content
             /\ cursorPosition' = lastEditor.cursorPosition]_vars

\* A delete of two characters has removed the two characters before a cursor
\* that was not at the end of the text.
C15_Witness ==
    /\ lastOp = "delete"
    /\ lastResult = "void"
    /\ lastArg = 2
    /\ Len(content) = Len(lastEditor.content) - 2
    /\ cursorPosition < Len(content)

\* C17: delete(count) with a count >= 0 and greater than cursorPosition
\* raises nothing and leaves content, cursorPosition and fontSize as they
\* were; with a count <= cursorPosition it removes exactly the count
\* characters before the cursor and moves cursorPosition back by count.
C17_DeleteGated ==
    [][(lastOp' = "delete" /\ lastArg' >= 0) =>
          LET count == lastArg'
          IN /\ lastResult' = "void"
             /\ fontSize' = fontSize
             /\ IF count > cursorPosition
                THEN UNCHANGED <<content, cursorPosition>>
                ELSE /\ cursorPosition' = cursorPosition - count
                     /\ Len(content') = Len(content) - count
                     /\ \A j \in 1 .. Len(content') :
                            content'[j] = IF j <= cursorPosition - count
                                          THEN content[j]
                                          ELSE content[j + count]]_vars

\* A delete of more characters than the cursor has before it, though not
\* more than the text has, has left the document alone.
C17_Witness ==
    /\ lastOp = "delete"
    /\ lastResult = "void"
    /\ cursorPosition > 0
    /\ lastArg > cursorPosition
    /\ lastArg <= Len(content)
    /\ editor = lastEditor

\* C18: setCursor(position) with a position >= 0 never fails and sets
\* cursorPosition to min(position, length of content), leaving content and
\* fontSize as they were; a position beyond the end gives the length.
C18_SetCursorClamps ==
    [][(lastOp' = "setCursor" /\ lastArg' >= 0) =>
          /\ lastResult' = "void"
          /\ cursorPosition' = IF lastArg' < Len(content)
                               THEN lastArg' ELSE Len(content)
          /\ UNCHANGED <<content, fontSize>>]_vars

\* setCursor(1000) has moved the cursor from inside a text to its end.
C18_Witness ==
    /\ lastOp = "setCursor"
    /\ lastResult = "void"
    /\ lastArg = 1000
    /\ lastEditor.cursorPosition < Len(content)
    /\ cursorPosition = Len(content)
    /\ Len(content) > 1

\* C24: write and delete never change fontSize; setFontSize never changes
\* content or cursorPosition; setCursor never changes content or fontSize.
C24_MutatorsFrame ==
    [][/\ lastOp' \in {"write", "delete"} => fontSize' = fontSize
       /\ lastOp' = "setFontSize" => UNCHANGED <<content, cursorPosition>>
       /\ lastOp' = "setCursor" => UNCHANGED <<content, fontSize>>]_vars

\* setFontSize has changed the font size of a text whose cursor is inside
\* it.
C24_Witness ==
    /\ lastOp = "setFontSize"
    /\ lastResult = "void"
    /\ fontSize # lastEditor.fontSize
    /\ cursorPosition > 0
    /\ cursorPosition < Len(content)

\* ------------------------------------------------ claims about SpecDirect
\* The call of this step is one with a rejected argument.
Rejected ==
    \/ lastOp' = "write" /\ lastArg' = <<>>
    \/ lastOp' = "delete" /\ lastArg' < 0
    \/ lastOp' = "setCursor" /\ lastArg' < 0
    \/ lastOp' = "setFontSize" /\ lastArg' <= 0
    \/ lastOp' = "setMaxHistorySize" /\ lastArg' <= 0
    \/ lastOp' = "saveState" /\ lastArg' = "null"

\* C19: write with the empty text, delete with a negative count, setCursor
\* with a negative position, setFontSize with a size <= 0,
\* setMaxHistorySize with a size <= 0 and saveState without an editor each
\* raise an error and leave the document (content, cursorPosition, fontSize)
\* and the history (snapshots, currentIndex, maxHistorySize) as they were.
C19_RejectedChangesNothing ==
    [][Rejected => /\ lastResult' = "throw"
                   /\ UNCHANGED program]_vars

\* A saveState without an editor was rejected after an undo: the snapshots
\* beyond currentIndex are still there.
C19_Witness ==
    /\ lastOp = "saveState"
    /\ lastArg = "null"
    /\ lastResult = "throw"
    /\ canRedo(history)
    /\ editor # Held(snapshots[Len(snapshots)])

\* ------------------------------------------ more claims about SpecCalls
\* The calls that run saveState.
Saves == {"saveState", "WriteCommand", "DeleteCommand", "FormatCommand"}

\* C22: a stored snapshot never changes, whatever happens to the document,
\* and the snapshots kept stay in their order: across every step the
\* snapshots kept are a run snapshots[a..b] of the old ones, followed at
\* most by the one new snapshot of a saveState.  Snapshots go only from the
\* front (a saveState on a full history, a shrinking setMaxHistorySize),
\* from the tail beyond currentIndex (a saveState), or all at once
\* (clearHistory).
C22_SnapshotsImmutableAndOrdered ==
    [][LET n == Len(snapshots)
       IN \E a \in 1 .. n + 1, b \in 0 .. n :
              /\ a <= b + 1
              /\ \/ snapshots' = SubSeq(snapshots, a, b)
                 \/ /\ lastOp' \in Saves
                    /\ snapshots' = Append(SubSeq(snapshots, a, b), Capture)
              /\ (a <= b /\ b < n) =>
                     /\ lastOp' \in Saves
                     /\ b = currentIndex + 1
              /\ (a <= b /\ a > 1) =>
                     \/ /\ lastOp' \in Saves
                        /\ Len(snapshots') = maxHistorySize
                     \/ /\ lastOp' = "setMaxHistorySize"
                        /\ lastArg' < n
              /\ (a > b /\ n > 0) =>
                     \/ lastOp' = "clearHistory"
                     \/ /\ lastOp' \in Saves
                        /\ maxHistorySize = 1]_vars

\* The second of three snapshots was cut off by the third saveState; the
\* first is still stored as it was made, and the document has moved on from
\* both.
C22_Witness ==
    /\ Len(snapshots) = 2
    /\ snapshots[1].timestamp = 1
    /\ snapshots[2].timestamp = 3
    /\ Held(snapshots[1]) = NewTextEditor
    /\ editor # Held(snapshots[1])
    /\ editor # Held(snapshots[2])

\* --------------------------------------------------- claims under SpecMethods
\* The methods of the history that take no part in undo and redo.
LedgerOnly ==
    {"saveState", "clearHistory", "setMaxHistorySize", "canUndo", "canRedo",
     "getHistoryInfo"}

\* The methods of the editor that change the document.
Mutators == {"write", "delete", "setCursor", "setFontSize"}

\* C31: saveState, clearHistory, setMaxHistorySize, canUndo, canRedo and
\* getHistoryInfo never change the document's content, cursor position or
\* font size, whatever they return; write, delete, setCursor and setFontSize
\* never change the snapshots, currentIndex or maxHistorySize; and a call on
\* the history changes the document only when it is an undo or a redo that
\* returns true.
C31_FrameOfEachMethod ==
    [][/\ lastOp' \in LedgerOnly =>
              UNCHANGED <<content, cursorPosition, fontSize>>
       /\ lastOp' \in Mutators =>
              UNCHANGED <<snapshots, currentIndex, maxHistorySize>>
       /\ (lastOp' \notin Mutators /\ editor' # editor) =>
              /\ lastOp' \in {"undo", "redo"}
              /\ lastResult' = "true"]_vars

\* An undo has just returned false with a snapshot stored at currentIndex 0
\* that differs from the document, and the document is as it was before the
\* call: nothing was restored.
C31_Witness ==
    /\ lastOp = "undo"
    /\ lastArg = "editor"
    /\ lastResult = "false"
    /\ currentIndex = 0
    /\ Len(snapshots) = 2
    /\ Held(snapshots[1]) # editor
    /\ Held(snapshots[2]) # editor

\* ---------------------------------------- SpecInvoker: the Delete command
\* The step runs, through executeCommand, a Delete command that deletes
\* nothing: its count is 0 or exceeds the cursor position.
NoOpDelete ==
    /\ lastOp' = "executeCommand"
    /\ lastArg'.kind = "delete"
    /\ (lastArg'.arg = 0 \/ lastArg'.arg > cursorPosition)

\* What such a command does on its own: it returns, the snapshot of the
\* document is stored last with currentIndex on it, the invoker counts the
\* command, and the document is as it was.
NoOpDeleteStillSaves ==
    /\ lastResult' = "void"
    /\ snapshots' # <<>>
    /\ snapshots'[Len(snapshots')] = Capture
    /\ currentIndex' = Len(snapshots') - 1
    /\ commands' = commands + 1
    /\ UNCHANGED <<content, cursorPosition, fontSize>>

\* C32 as claimed: a Delete command whose count is 0 or exceeds the cursor
\* position still stores a snapshot and is counted by the invoker while the
\* document stays as it was, and an undo called next returns true and moves
\* currentIndex back by one.
C32_NoOpDeleteIsUndone ==
    [][NoOpDelete =>
          /\ NoOpDeleteStillSaves
          /\ LET u == undo(history', editor', TRUE)
             IN /\ u.result
                /\ u.history.currentIndex = currentIndex' - 1]_vars

\* The part of C32 that does not depend on undo.
C32_NoOpDeleteSaves == [][NoOpDelete => NoOpDeleteStillSaves]_vars

\* --------------------------------------------------- claims under SpecVariants
\* C33: after every sequence of saveState, undo, redo, clearHistory, write,
\* delete, setCursor and setFontSize with valid arguments made on both
\* variants, the unvalidated variant and the validated variant hold the same
\* snapshots, the same currentIndex and the same document, and the call
\* just made returned the same in both: neither threw, and undo and redo
\* returned the same boolean.
C33_VariantsAgree ==
    /\ basic.history.snapshots = snapshots
    /\ basic.history.currentIndex = currentIndex
    /\ basic.editor = editor
    /\ basic.result = lastResult
    /\ lastResult \in {"void", "true", "false"}

\* Both variants have shifted the oldest snapshot out of a full history (the
\* first one stored is the second one made), stepped back with an undo and
\* forward again with a redo that returned true, and hold the document of
\* the newest snapshot, which differs from a new document.
C33_Witness ==
    /\ lastOp = "redo"
    /\ lastResult = "true"
    /\ basic.result = "true"
    /\ Len(basic.history.snapshots) = DefaultMaxHistorySize
    /\ basic.history.snapshots[1].timestamp = 2
    /\ basic.history.currentIndex = DefaultMaxHistorySize - 1
    /\ basic.editor = Held(basic.history.snapshots[DefaultMaxHistorySize])
    /\ basic.editor # NewTextEditor

=============================================================================
